---- MODULE Spec2Model ----
(***************************************************************************)
(* Tic-Tac-Toe backend: the board engine (core/game_engine.py), the move   *)
(* oracle (services/ai_service.py) and the move-application protocol       *)
(* (services/game_service.py) over one persisted game.                     *)
(*                                                                         *)
(* Persistence follows core/db.py: a request works on a private session;   *)
(* its changes reach the tables only at session.commit(), and a request    *)
(* that ends by an exception closes its session without committing.        *)
(***************************************************************************)
EXTENDS Integers, Sequences, FiniteSets, TLC

VARIABLES
    db_games,          \* table game: sequence of committed Game rows
    db_moves,          \* table move: sequence of committed Move rows, in id order
    pc,                \* "idle" | "call_api" | "done": where the request in flight stands
    req,               \* the request in flight: game_id, user_id, position
    sess_game,         \* the session's loaded Game object (<<>> when none)
    sess_moves,        \* Move objects added to the session, not yet committed
    current_key_index, \* AIService.current_key_index
    attempt,           \* get_move: loop variable
    invalid_moves,     \* get_move: list of invalid answers so far
    last_error,        \* get_move: last transport error
    warnings,          \* get_move: the warnings appended to the prompt so far
    api_calls,         \* transport calls issued by the request in flight / last request
    get_move_calls,    \* get_move invocations of the request in flight / last request
    key_used,          \* credential used by the latest transport call
    response,          \* what the latest transport call of the request came back with
    total_calls,       \* transport calls the AIService instance issued so far, modulo NumKeys
    result,            \* what the last finished request returned or raised
    engine,            \* a call of a pure method under evaluation: its arguments and its result
    max_retries,       \* AIService.max_retries, read from the settings at construction
    tasks              \* make_move coroutines running concurrently on the event loop

vars == <<db_games, db_moves, pc, req, sess_game, sess_moves, current_key_index,
          attempt, invalid_moves, last_error, warnings, api_calls,
          get_move_calls, key_used, response, total_calls, result, engine, max_retries, tasks>>

----------------------------------------------------------------------------
(* Bounds and input sets *)

\* number of configured credentials (settings.api_keys_list)
NumKeys == 2

\* settings.AI_MAX_RETRIES
AI_MAX_RETRIES == 3

None == "None"

Cells == 0..8

\* positions a caller may submit (MoveCreate.position before validation)
HumanPositions == -1..9

\* the digit that is no cell of the board
OutOfBoard == {9}

\* ids of the games that get created, and the ids a request may name
GameIds == {1}
RequestGameIds == {1, 2}

\* the users who create games, and the authenticated users
Owners == {1}
Users == {1, 2}

Difficulties == {"EASY", "MEDIUM", "HARD"}

\* every 9-character board over " ", "X", "O", reachable in play or not
AllBoards == [Cells -> {" ", "X", "O"}]

----------------------------------------------------------------------------
(* core/game_engine.py *)

EmptyBoard == [i \in Cells |-> " "]

WIN_COMBINATIONS ==
    << <<0, 1, 2>>, <<3, 4, 5>>, <<6, 7, 8>>,
       <<0, 3, 6>>, <<1, 4, 7>>, <<2, 5, 8>>,
       <<0, 4, 8>>, <<2, 4, 6>> >>

\* only the range is checked
is_valid_move_RangeOnly(board, position) == position >= 0 /\ position <= 8

\* the lower bound is not checked: a negative index counts from the end of the string
is_valid_move_NoLowerBound(board, position) ==
    IF position > 8 THEN FALSE ELSE board[position % 9] = " "

\* the occupied check looks for the caller's own mark only
is_valid_move_OwnMarkOnly(board, position) ==
    IF position < 0 \/ position > 8 THEN FALSE ELSE board[position] # "X"

is_valid_move(board, position) ==
    IF position < 0 \/ position > 8 THEN FALSE ELSE board[position] = " "

\* the position is taken as 1-based: index position - 1, and -1 is the last cell
make_move_OneBased(board, position, player) ==
    [board EXCEPT ![(position + 8) % 9] = player]

make_move(board, position, player) == [board EXCEPT ![position] = player]

\* index of the combinations whose three cells hold the same non-empty mark
WinningCombos(board) ==
    {k \in 1..Len(WIN_COMBINATIONS) :
        LET combo == WIN_COMBINATIONS[k] IN
            /\ board[combo[1]] # " "
            /\ board[combo[1]] = board[combo[2]]
            /\ board[combo[2]] = board[combo[3]]}

MinOf(S) == CHOOSE x \in S : \A y \in S : x <= y
MaxOf(S) == CHOOSE x \in S : \A y \in S : x >= y

\* the loop does not return at the first combination: the last one stands
check_winner_LastCombo(board) ==
    IF WinningCombos(board) = {} THEN None
    ELSE board[WIN_COMBINATIONS[MaxOf(WinningCombos(board))][1]]

\* only the three rows are looked at
check_winner_RowsOnly(board) ==
    LET rows == WinningCombos(board) \cap (1..3) IN
        IF rows = {} THEN None ELSE board[WIN_COMBINATIONS[MinOf(rows)][1]]

\* the loop returns at the first combination that qualifies
check_winner(board) ==
    IF WinningCombos(board) = {} THEN None
    ELSE board[WIN_COMBINATIONS[MinOf(WinningCombos(board))][1]]

\* the test can never succeed
is_board_full_Never(board) == FALSE

\* the last cell is not looked at
is_board_full_SkipsLast(board) == \A i \in 0..7 : board[i] # " "

is_board_full(board) == \A i \in Cells : board[i] # " "

\* enumerate(board): the indices 0..8 in order
Enumerated == [k \in 1..9 |-> k - 1]

\* the indices are listed in the wrong base
get_available_moves_OneBased(board) ==
    LET IsEmpty(i) == board[i] = " " IN
        [k \in 1..Len(SelectSeq(Enumerated, IsEmpty)) |->
            SelectSeq(Enumerated, IsEmpty)[k] + 1]

\* [i for i, cell in enumerate(board) if cell == " "]
get_available_moves(board) ==
    LET IsEmpty(i) == board[i] = " " IN SelectSeq(Enumerated, IsEmpty)

\* list(board): the nine characters as a list, indexed like the string
board_to_list(board) == [i \in Cells |-> board[i]]

get_opponent(player) == IF player = "X" THEN "O" ELSE "X"

----------------------------------------------------------------------------
(* services/ai_service.py: pure parts *)

CountIn(board, line, mark) == Cardinality({j \in 1..3 : board[line[j]] = mark})

\* line[cells.index(" ")]: the first empty cell of the line
FirstEmpty(board, line) == line[MinOf({j \in 1..3 : board[line[j]] = " "})]

\* the second diagonal ends on the wrong cell
lines_Typo ==
    << <<0, 1, 2>>, <<3, 4, 5>>, <<6, 7, 8>>,
       <<0, 3, 6>>, <<1, 4, 7>>, <<2, 5, 8>>,
       <<0, 4, 8>>, <<2, 4, 7>> >>

\* _analyze_threats' own list of lines
lines ==
    << <<0, 1, 2>>, <<3, 4, 5>>, <<6, 7, 8>>,
       <<0, 3, 6>>, <<1, 4, 7>>, <<2, 5, 8>>,
       <<0, 4, 8>>, <<2, 4, 6>> >>

\* the lines with two cells of mark and one empty cell
ThreatLines(board, mark) ==
    {k \in 1..Len(lines) :
        /\ CountIn(board, lines[k], mark) = 2
        /\ CountIn(board, lines[k], " ") = 1}

\* the line's first cell is reported instead of its empty cell
_analyze_threats_FirstCell(board, opponent, player) ==
    LET opp == ThreatLines(board, opponent)
        you == ThreatLines(board, player)
    IN [opponent_can_win |-> opp # {},
        opponent_win_pos |-> IF opp = {} THEN None
                             ELSE lines[MaxOf(opp)][1],
        you_can_win      |-> you # {},
        your_win_pos     |-> IF you = {} THEN None
                             ELSE lines[MaxOf(you)][1]]

\* every qualifying line overwrites the result: the last one stands
_analyze_threats(board, opponent, player) ==
    LET opp == ThreatLines(board, opponent)
        you == ThreatLines(board, player)
    IN [opponent_can_win |-> opp # {},
        opponent_win_pos |-> IF opp = {} THEN None
                             ELSE FirstEmpty(board, lines[MaxOf(opp)]),
        you_can_win      |-> you # {},
        your_win_pos     |-> IF you = {} THEN None
                             ELSE FirstEmpty(board, lines[MaxOf(you)])]

\* the cell is compared with the oracle's own mark only
_is_valid_move_NotOwn(board, move) ==
    IF move < 0 \/ move > 8 THEN FALSE ELSE board[move] # "O"

\* only the range is checked, not whether the cell is taken
_is_valid_move_InRangeOnly(board, move) == move >= 0 /\ move <= 8

_is_valid_move(board, move) ==
    IF move < 0 \/ move > 8 THEN FALSE ELSE board[move] = " "

\* the index is advanced without the modulo
_get_next_api_key_NoWrap(index) ==
    IF NumKeys = 0
    THEN [raised |-> TRUE, key |-> 0, next |-> index]
    ELSE [raised |-> FALSE, key |-> index, next |-> index + 1]

\* the index is not advanced
_get_next_api_key_Stuck(index) ==
    IF NumKeys = 0
    THEN [raised |-> TRUE, key |-> 0, next |-> index]
    ELSE [raised |-> FALSE, key |-> index, next |-> index]

\* the key at current_key_index and the advanced index; raises without keys
_get_next_api_key(index) ==
    IF NumKeys = 0
    THEN [raised |-> TRUE, key |-> 0, next |-> index]
    ELSE [raised |-> FALSE, key |-> index, next |-> (index + 1) % NumKeys]

\* the characters an answer of the external model is drawn from
Chars == {"0", "1", "4", "7", "9", ",", " ", "n"}

\* the longest answer drawn
MaxLen == 3

\* the answers: every text of at most MaxLen characters
Contents == UNION {[1..n -> Chars] : n \in 0..MaxLen}

\* the characters \d matches that the answers are drawn from, and int() of each
DecimalDigits == <<"0", "1", "2", "3", "4", "5", "6", "7", "8", "9">>

IsDigit(ch) == \E k \in 1..Len(DecimalDigits) : DecimalDigits[k] = ch

int(ch) == (CHOOSE k \in 1..Len(DecimalDigits) : DecimalDigits[k] = ch) - 1

\* content.strip(): the text without its leading and trailing blanks
strip(content) ==
    LET inked == {i \in 1..Len(content) : content[i] # " "} IN
        IF inked = {} THEN <<>> ELSE SubSeq(content, MinOf(inked), MaxOf(inked))

\* the last digit of the answer is taken
ParsedMove_LastDigit(content) ==
    LET text  == strip(content)
        found == {i \in 1..Len(text) : IsDigit(text[i])}
    IN IF found = {}
       THEN [raised |-> TRUE, move |-> -1]
       ELSE [raised |-> FALSE, move |-> int(text[MaxOf(found)])]

\* re.search(r"\d", content) and int(match.group()): the first digit of the
\* answer, or ValueError turned into AIServiceException when there is none
ParsedMove(content) ==
    LET text  == strip(content)
        found == {i \in 1..Len(text) : IsDigit(text[i])}
    IN IF found = {}
       THEN [raised |-> TRUE, move |-> -1]
       ELSE [raised |-> FALSE, move |-> int(text[MinOf(found)])]

\* the first digit of the external model's answer, as the model draws it for a
\* board: the lowest free cell, the lowest occupied cell, or a digit off the board
OracleDigits(board) ==
    LET free == {i \in Cells : board[i] = " "}
        used == {i \in Cells : board[i] # " "}
    IN (IF free = {} THEN {} ELSE {MinOf(free)})
       \cup (IF used = {} THEN {} ELSE {MinOf(used)})
       \cup OutOfBoard

\* only the latest invalid answer is listed and excluded
PromptWarning_LastOnly(board, invalid) ==
    [invalid   |-> <<invalid[Len(invalid)]>>,
     available |-> {i \in Cells : board[i] = " " /\ invalid[Len(invalid)] # i}]

\* the warning appended to the prompt when invalid_moves is not empty
PromptWarning(board, invalid) ==
    [invalid   |-> invalid,
     available |-> {i \in Cells :
                      board[i] = " " /\ \A j \in 1..Len(invalid) : invalid[j] # i}]

----------------------------------------------------------------------------
(* Rows, sessions and results *)

\* models.py has no OpponentType and GameCreate carries no opponent choice:
\* every game is played against the automated opponent
OpponentTypes == {"ai"}

NoReq == [op |-> "none", game_id |-> 0, user_id |-> 0, position |-> 0,
          difficulty |-> ""]

NoResult == [kind |-> "none", message |-> "", body |-> <<>>]

\* what client.post and the parsing of its answer come back with: a digit, a
\* transport error, or an answer without a digit / of another structure
Response(kind, digit) == [kind |-> kind, digit |-> digit]

NoResponse == Response("none", -1)

\* no GameEngine method is under evaluation
NoCall == [op |-> "none"]

\* the where clause lacks the owner
FindGame_AnyOwner(game_id, user_id) ==
    {k \in 1..Len(db_games) : db_games[k].id = game_id}

\* select(Game).where(Game.id == game_id, Game.user_id == user_id)
FindGame(game_id, user_id) ==
    {k \in 1..Len(db_games) :
        db_games[k].id = game_id /\ db_games[k].user_id = user_id}

RowOf(game_id) == CHOOSE k \in 1..Len(db_games) : db_games[k].id = game_id

\* every Move row written with the human's mark
Move_AlwaysX(game, position, player) ==
    [game_id |-> game.id, position |-> position, player |-> "X"]

\* Move(game_id=game.id, position=..., player=...)
Move(game, position, player) ==
    [game_id |-> game.id, position |-> position, player |-> player]

\* the rows a commit inserts for the session's new Move objects
Inserted(new_moves) ==
    [k \in 1..Len(new_moves) |->
        [id       |-> Len(db_moves) + k,
         game_id  |-> new_moves[k].game_id,
         position |-> new_moves[k].position,
         player   |-> new_moves[k].player]]

\* ai_move is <<>> for None
MovePublic(position, game, winner, ai_move) ==
    [kind    |-> "MovePublic",
     message |-> "",
     body    |-> [position |-> position,
                  player   |-> "X",
                  board    |-> game.board,
                  status   |-> game.status,
                  winner   |-> winner,
                  ai_move  |-> ai_move]]

Raised(kind, message, details) ==
    [kind |-> kind, message |-> message, body |-> details]

\* the handler returned or raised: get_move's locals are gone
RequestEnds ==
    /\ pc' = "done"
    /\ sess_game' = <<>>
    /\ sess_moves' = <<>>
    /\ attempt' = 0
    /\ invalid_moves' = <<>>
    /\ last_error' = None
    /\ warnings' = <<>>

\* session.commit(): the session's Game object and new Move rows are written
Commit(game, new_moves) ==
    /\ db_games' = [db_games EXCEPT ![RowOf(game.id)] = game]
    /\ db_moves' = db_moves \o Inserted(new_moves)

\* the session is closed without a commit: the tables keep their rows
Rollback == UNCHANGED <<db_games, db_moves>>

----------------------------------------------------------------------------
(* services/game_service.py *)

Init ==
    /\ db_games = <<>>
    /\ db_moves = <<>>
    /\ pc = "idle"
    /\ req = NoReq
    /\ sess_game = <<>>
    /\ sess_moves = <<>>
    /\ current_key_index = 0
    /\ attempt = 0
    /\ invalid_moves = <<>>
    /\ last_error = None
    /\ warnings = <<>>
    /\ api_calls = 0
    /\ get_move_calls = 0
    /\ key_used = <<>>
    /\ response = NoResponse
    /\ total_calls = 0
    /\ result = NoResult
    /\ engine = NoCall
    /\ max_retries = AI_MAX_RETRIES
    /\ tasks = <<>>

\* the requested difficulty is dropped and the column default is stored
CreateGame_DefaultDifficulty(user_id, difficulty) ==
    /\ pc = "idle"
    /\ Len(db_games) + 1 \in GameIds
    /\ LET game == [id             |-> Len(db_games) + 1,
                    user_id        |-> user_id,
                    difficulty     |-> "MEDIUM",
                    opponent_type  |-> CHOOSE t \in OpponentTypes : TRUE,
                    board          |-> EmptyBoard,
                    status         |-> "in_progress",
                    current_player |-> "X",
                    winner         |-> None]
       IN /\ db_games' = Append(db_games, game)
          /\ result' = [kind |-> "GamePublic", message |-> "", body |-> game]
    /\ req' = [op |-> "create_game", game_id |-> Len(db_games) + 1,
               user_id |-> user_id, position |-> 0, difficulty |-> difficulty]
    /\ RequestEnds
    /\ UNCHANGED <<db_moves, current_key_index, api_calls, get_move_calls, key_used,
                   response, total_calls, engine, max_retries, tasks>>

CreateGame(user_id, difficulty) ==
    /\ pc = "idle"
    /\ Len(db_games) + 1 \in GameIds
    /\ LET game == [id             |-> Len(db_games) + 1,
                    user_id        |-> user_id,
                    difficulty     |-> difficulty,
                    opponent_type  |-> CHOOSE t \in OpponentTypes : TRUE,
                    board          |-> EmptyBoard,
                    status         |-> "in_progress",
                    current_player |-> "X",
                    winner         |-> None]
       IN /\ db_games' = Append(db_games, game)
          /\ result' = [kind |-> "GamePublic", message |-> "", body |-> game]
    /\ req' = [op |-> "create_game", game_id |-> Len(db_games) + 1,
               user_id |-> user_id, position |-> 0, difficulty |-> difficulty]
    /\ RequestEnds
    /\ UNCHANGED <<db_moves, current_key_index, api_calls, get_move_calls, key_used,
                   response, total_calls, engine, max_retries, tasks>>

\* GamePublic(**game.model_dump()) with the board as a list
_to_public(game) == [game EXCEPT !.board = board_to_list(game.board)]

\* get_game finds the caller's game and returns it; nothing is written
GetGame(user_id, game_id) ==
    /\ pc = "idle"
    /\ req' = [op |-> "get_game", game_id |-> game_id, user_id |-> user_id,
               position |-> 0, difficulty |-> ""]
    /\ FindGame(game_id, user_id) # {}
    /\ result' = [kind |-> "GamePublic", message |-> "",
                  body |-> _to_public(db_games[CHOOSE k \in FindGame(game_id, user_id) : TRUE])]
    /\ RequestEnds
    /\ Rollback
    /\ UNCHANGED <<current_key_index, api_calls, get_move_calls, key_used,
                   response, total_calls, engine, max_retries, tasks>>

\* get_game finds no row with this id and this owner
GetGameNotFound(user_id, game_id) ==
    /\ pc = "idle"
    /\ req' = [op |-> "get_game", game_id |-> game_id, user_id |-> user_id,
               position |-> 0, difficulty |-> ""]
    /\ FindGame(game_id, user_id) = {}
    /\ result' = Raised("NotFoundException", "Game with id not found",
                        [game_id |-> game_id])
    /\ RequestEnds
    /\ Rollback
    /\ UNCHANGED <<current_key_index, api_calls, get_move_calls, key_used,
                   response, total_calls, engine, max_retries, tasks>>

\* the status values a list request carries: none, or a GameStatus value
StatusQueries == {None, "finished"}

\* skip: int = 0, limit: int = 100
DefaultSkip == 0
DefaultLimit == 100

\* the parameters of GameService.list_games besides self
list_games_parameters == {"session", "user_id", "skip", "limit"}

\* the keyword arguments the route passes to game_service.list_games
list_games_keywords == {"session", "user_id", "skip", "limit", "status"}

\* select(Game).where(Game.user_id == user_id).order_by(Game.created_at.desc())
\* .offset(skip).limit(limit): the rows are inserted in the order of created_at
list_games(games, user_id, skip, limit) ==
    LET own    == SelectSeq(games, LAMBDA g : g.user_id = user_id)
        newest == [k \in 1..Len(own) |-> own[Len(own) + 1 - k]]
        last   == IF skip + limit < Len(newest) THEN skip + limit ELSE Len(newest)
        page   == SubSeq(newest, skip + 1, last)
    IN [k \in 1..Len(page) |-> _to_public(page[k])]

\* the route turns the query into a GameStatus (an unknown value is dropped) and
\* calls game_service.list_games with status=..., a keyword the method does not
\* take: the call raises TypeError before any query is made
ListGames(user_id, status) ==
    /\ pc = "idle"
    /\ req' = [op |-> "list_games", game_id |-> 0, user_id |-> user_id,
               position |-> 0, difficulty |-> "", status |-> status]
    /\ result' = IF list_games_keywords \subseteq list_games_parameters
                 THEN [kind |-> "GamesPublic", message |-> "",
                       body |-> list_games(db_games, user_id, DefaultSkip, DefaultLimit)]
                 ELSE Raised("TypeError", "unexpected keyword argument",
                             list_games_keywords \ list_games_parameters)
    /\ RequestEnds
    /\ Rollback
    /\ UNCHANGED <<current_key_index, api_calls, get_move_calls, key_used,
                   response, total_calls, engine, max_retries, tasks>>

\* the response is sent and the next request may come
Respond ==
    /\ pc = "done"
    /\ pc' = "idle"
    /\ req' = NoReq
    /\ result' = NoResult
    /\ api_calls' = 0
    /\ get_move_calls' = 0
    /\ key_used' = <<>>
    /\ response' = NoResponse
    /\ UNCHANGED <<db_games, db_moves, sess_game, sess_moves, current_key_index,
                   attempt, invalid_moves, last_error, warnings, total_calls, engine, max_retries, tasks>>

\* the game the request loads
Loaded(game_id, user_id) == db_games[CHOOSE k \in FindGame(game_id, user_id) : TRUE]

\* game.board = GameEngine.make_move(game.board, position, Player.X)
HumanMove(game, position) ==
    [game EXCEPT !.board = make_move(game.board, position, "X")]

\* the winner and full checks are not run again after the oracle's move
AIMove_NoCheck(game, ai_position) ==
    [game EXCEPT !.board = make_move(game.board, ai_position, "O")]

\* the winner is not recorded after the oracle's move
AIMove_NoWinner(game, ai_position) ==
    LET board  == make_move(game.board, ai_position, "O")
        winner == check_winner(board)
    IN [game EXCEPT
            !.board  = board,
            !.status = IF winner # None THEN "finished"
                       ELSE IF is_board_full(board) THEN "draw" ELSE @]

\* the oracle's mark is applied and the winner / full checks are run again
AIMove(game, ai_position) ==
    LET board  == make_move(game.board, ai_position, "O")
        winner == check_winner(board)
    IN [game EXCEPT
            !.board  = board,
            !.status = IF winner # None THEN "finished"
                       ELSE IF is_board_full(board) THEN "draw" ELSE @,
            !.winner = IF winner # None THEN winner ELSE @]

\* only one of the two final statuses is recognised
IsOver_DrawOnly(game) == game.status = "draw"

\* the status is not checked at all
IsOver_Never(game) == FALSE

\* if game.status != GameStatus.IN_PROGRESS
IsOver(game) == game.status # "in_progress"

\* the human move is legal and neither wins nor fills the board
Continues(game, position) ==
    /\ ~IsOver(game)
    /\ is_valid_move(game.board, position)
    /\ check_winner(HumanMove(game, position).board) = None
    /\ ~is_board_full(HumanMove(game, position).board)

\* a request starts: its position is kept for the response
Starts(user_id, game_id, position) ==
    /\ pc = "idle"
    /\ req' = [op |-> "make_move", game_id |-> game_id, user_id |-> user_id,
               position |-> position, difficulty |-> ""]

\* the lookup finds no row; the position is not read
MakeMoveNotFound(user_id, game_id) ==
    /\ Starts(user_id, game_id, 0)
    /\ FindGame(game_id, user_id) = {}
    /\ result' = Raised("NotFoundException", "Game not found", [game_id |-> game_id])
    /\ RequestEnds
    /\ Rollback
    /\ UNCHANGED <<current_key_index, api_calls, get_move_calls, key_used,
                   response, total_calls, engine, max_retries, tasks>>

MakeMoveGameOver(user_id, game_id, position) ==
    /\ Starts(user_id, game_id, position)
    /\ FindGame(game_id, user_id) # {}
    /\ LET game == Loaded(game_id, user_id) IN
        /\ IsOver(game)
        /\ result' = Raised("GameOverException", "Game is already finished",
                            [status |-> game.status, winner |-> game.winner])
    /\ RequestEnds
    /\ Rollback
    /\ UNCHANGED <<current_key_index, api_calls, get_move_calls, key_used,
                   response, total_calls, engine, max_retries, tasks>>

MakeMoveInvalid(user_id, game_id, position) ==
    /\ Starts(user_id, game_id, position)
    /\ FindGame(game_id, user_id) # {}
    /\ LET game == Loaded(game_id, user_id) IN
        /\ ~IsOver(game)
        /\ ~is_valid_move(game.board, position)
        /\ result' = Raised("InvalidMoveException", "Position is not available",
                            [position |-> position, board |-> game.board])
    /\ RequestEnds
    /\ Rollback
    /\ UNCHANGED <<current_key_index, api_calls, get_move_calls, key_used,
                   response, total_calls, engine, max_retries, tasks>>

\* the human move completes a line: finished, committed, no oracle call
MakeMoveWins(user_id, game_id, position) ==
    /\ Starts(user_id, game_id, position)
    /\ FindGame(game_id, user_id) # {}
    /\ LET game == Loaded(game_id, user_id) IN
        /\ ~IsOver(game)
        /\ is_valid_move(game.board, position)
        /\ LET moved  == HumanMove(game, position)
               winner == check_winner(moved.board)
               done   == [moved EXCEPT !.status = "finished", !.winner = winner]
           IN /\ winner # None
              /\ Commit(done, <<Move(game, position, "X")>>)
              /\ result' = MovePublic(position, done, done.winner, <<>>)
    /\ RequestEnds
    /\ UNCHANGED <<current_key_index, api_calls, get_move_calls, key_used,
                   response, total_calls, engine, max_retries, tasks>>

\* the full-board check placed before the winner check
MakeMoveDraw_FullFirst(user_id, game_id, position) ==
    /\ Starts(user_id, game_id, position)
    /\ FindGame(game_id, user_id) # {}
    /\ LET game == Loaded(game_id, user_id) IN
        /\ ~IsOver(game)
        /\ is_valid_move(game.board, position)
        /\ LET moved == HumanMove(game, position)
               done  == [moved EXCEPT !.status = "draw"]
           IN /\ is_board_full(moved.board)
              /\ Commit(done, <<Move(game, position, "X")>>)
              /\ result' = MovePublic(position, done, None, <<>>)
    /\ RequestEnds
    /\ UNCHANGED <<current_key_index, api_calls, get_move_calls, key_used,
                   response, total_calls, engine, max_retries, tasks>>

\* the human move fills the board without a line: draw, committed, no oracle call
MakeMoveDraw(user_id, game_id, position) ==
    /\ Starts(user_id, game_id, position)
    /\ FindGame(game_id, user_id) # {}
    /\ LET game == Loaded(game_id, user_id) IN
        /\ ~IsOver(game)
        /\ is_valid_move(game.board, position)
        /\ LET moved == HumanMove(game, position)
               done  == [moved EXCEPT !.status = "draw"]
           IN /\ check_winner(moved.board) = None
              /\ is_board_full(moved.board)
              /\ Commit(done, <<Move(game, position, "X")>>)
              /\ result' = MovePublic(position, done, None, <<>>)
    /\ RequestEnds
    /\ UNCHANGED <<current_key_index, api_calls, get_move_calls, key_used,
                   response, total_calls, engine, max_retries, tasks>>

----------------------------------------------------------------------------
(* services/ai_service.py: get_move, as make_move awaits it *)

\* get_move's fast path: the oracle's own winning cell, when it has one
FastPath(board) == _analyze_threats(board, "X", "O")

\* the loop is entered whatever the limit
InRange_Always(next_attempt) == TRUE

\* for attempt in range(self.max_retries)
InRange(next_attempt) == next_attempt < max_retries

\* if attempt < self.max_retries - 1: continue
Retries(this_attempt) == this_attempt < max_retries - 1

\* the attempt number does not advance
NextAttempt_Stuck(this_attempt) == this_attempt

NextAttempt(this_attempt) == this_attempt + 1

\* the response is built from the game as it was before the oracle's move
OracleMoved_ReturnsStale(game, new_moves, position, ai_position) ==
    LET done == AIMove(game, ai_position) IN
        /\ Commit(done, Append(new_moves, Move(game, ai_position, "O")))
        /\ result' = MovePublic(position, game, game.winner, <<ai_position>>)
        /\ RequestEnds

\* the oracle's Move object is not added to the session
OracleMoved_NoMoveRow(game, new_moves, position, ai_position) ==
    LET done == AIMove(game, ai_position) IN
        /\ Commit(done, new_moves)
        /\ result' = MovePublic(position, done, done.winner, <<ai_position>>)
        /\ RequestEnds

\* make_move after get_move returned: apply, add the Move, check, commit, return
OracleMoved(game, new_moves, position, ai_position) ==
    LET done == AIMove(game, ai_position) IN
        /\ Commit(done, Append(new_moves, Move(game, ai_position, "O")))
        /\ result' = MovePublic(position, done, done.winner, <<ai_position>>)
        /\ RequestEnds

\* the session is committed before the exception leaves make_move
OracleFailed_Committed(message, details) ==
    /\ result' = Raised("AIServiceException", message, details)
    /\ Commit(sess_game[1], sess_moves)
    /\ RequestEnds

\* get_move raised: make_move ends by the exception, nothing is committed
OracleFailed(message, details) ==
    /\ result' = Raised("AIServiceException", message, details)
    /\ Rollback
    /\ RequestEnds

\* the loop is left without a return: raise "Max retries exceeded"
MaxRetriesExceeded(error) ==
    OracleFailed("Max retries exceeded",
                 [retries |-> max_retries, last_error |-> error])

\* a key is taken from the rotation before the fast path is looked at
MakeMoveFastPath_TakesKey(user_id, game_id, position) ==
    /\ Starts(user_id, game_id, position)
    /\ FindGame(game_id, user_id) # {}
    /\ LET game == Loaded(game_id, user_id) IN
        /\ Continues(game, position)
        /\ game.opponent_type = "ai"
        /\ LET moved == HumanMove(game, position) IN
            /\ FastPath(moved.board).you_can_win
            /\ OracleMoved(moved, <<Move(game, position, "X")>>, position,
                           FastPath(moved.board).your_win_pos)
    /\ get_move_calls' = get_move_calls + 1
    /\ current_key_index' = _get_next_api_key(current_key_index).next
    /\ UNCHANGED <<api_calls, key_used, response, total_calls, engine, max_retries, tasks>>

\* the human move is applied and the oracle has a winning cell: no transport call
MakeMoveFastPath(user_id, game_id, position) ==
    /\ Starts(user_id, game_id, position)
    /\ FindGame(game_id, user_id) # {}
    /\ LET game == Loaded(game_id, user_id) IN
        /\ Continues(game, position)
        /\ game.opponent_type = "ai"
        /\ LET moved == HumanMove(game, position) IN
            /\ FastPath(moved.board).you_can_win
            /\ OracleMoved(moved, <<Move(game, position, "X")>>, position,
                           FastPath(moved.board).your_win_pos)
    /\ get_move_calls' = get_move_calls + 1
    /\ UNCHANGED <<current_key_index, api_calls, key_used, response, total_calls, engine, max_retries, tasks>>

\* the human move is applied and get_move enters its transport loop
MakeMoveAsksOracle(user_id, game_id, position) ==
    /\ Starts(user_id, game_id, position)
    /\ FindGame(game_id, user_id) # {}
    /\ LET game == Loaded(game_id, user_id) IN
        /\ Continues(game, position)
        /\ game.opponent_type = "ai"
        /\ LET moved == HumanMove(game, position) IN
            /\ ~FastPath(moved.board).you_can_win
            /\ IF InRange(0)
               THEN /\ pc' = "call_api"
                    /\ sess_game' = <<moved>>
                    /\ sess_moves' = <<Move(game, position, "X")>>
                    /\ attempt' = 0
                    /\ invalid_moves' = <<>>
                    /\ last_error' = None
                    /\ warnings' = <<>>
                    /\ result' = NoResult
                    /\ Rollback
               ELSE MaxRetriesExceeded(None)
    /\ get_move_calls' = get_move_calls + 1
    /\ UNCHANGED <<current_key_index, api_calls, key_used, response, total_calls, engine, max_retries, tasks>>

\* the prompt of this iteration: a warning is appended when invalid_moves is not empty
PromptNow ==
    IF invalid_moves # <<>>
    THEN Append(warnings, PromptWarning(sess_game[1].board, invalid_moves))
    ELSE warnings

\* _call_api takes the next key and posts the request
Posted ==
    LET k == _get_next_api_key(current_key_index) IN
        /\ ~k.raised
        /\ current_key_index' = k.next
        /\ key_used' = <<k.key>>
        /\ api_calls' = api_calls + 1
        /\ total_calls' = (total_calls + 1) % NumKeys

\* the except clause does not record the error before it continues
Continue_KeepsError(invalid, error) ==
    IF InRange(NextAttempt(attempt))
    THEN /\ attempt' = NextAttempt(attempt)
         /\ invalid_moves' = invalid
         /\ last_error' = last_error
         /\ warnings' = PromptNow
         /\ UNCHANGED <<pc, sess_game, sess_moves, result>>
         /\ Rollback
    ELSE MaxRetriesExceeded(error)

\* the iteration ends by continue: the next iteration, or the loop is over
Continue(invalid, error) ==
    IF InRange(NextAttempt(attempt))
    THEN /\ attempt' = NextAttempt(attempt)
         /\ invalid_moves' = invalid
         /\ last_error' = error
         /\ warnings' = PromptNow
         /\ UNCHANGED <<pc, sess_game, sess_moves, result>>
         /\ Rollback
    ELSE MaxRetriesExceeded(error)

\* the answer's first digit is a free cell: get_move returns it
ApiValidMove(digit) ==
    /\ pc = "call_api"
    /\ digit \in OracleDigits(sess_game[1].board)
    /\ Posted
    /\ response' = Response("digit", digit)
    /\ _is_valid_move(sess_game[1].board, digit)
    /\ OracleMoved(sess_game[1], sess_moves, req.position, digit)
    /\ UNCHANGED <<req, get_move_calls, engine, max_retries, tasks>>

\* the answer's first digit is no free cell: recorded, then retry or raise
ApiInvalidMove(digit) ==
    /\ pc = "call_api"
    /\ digit \in OracleDigits(sess_game[1].board)
    /\ Posted
    /\ response' = Response("digit", digit)
    /\ ~_is_valid_move(sess_game[1].board, digit)
    /\ IF Retries(attempt)
       THEN Continue(Append(invalid_moves, digit), last_error)
       ELSE OracleFailed("AI returned invalid move after retries",
                         [move             |-> digit,
                          board            |-> sess_game[1].board,
                          invalid_attempts |-> Append(invalid_moves, digit)])
    /\ UNCHANGED <<req, get_move_calls, engine, max_retries, tasks>>

\* raise_for_status: a non-success response
ApiStatusError ==
    /\ pc = "call_api"
    /\ Posted
    /\ response' = Response("HTTPStatusError", -1)
    /\ IF Retries(attempt)
       THEN Continue(invalid_moves, "HTTPStatusError")
       ELSE OracleFailed("Failed to get AI response",
                         [error |-> "HTTPStatusError", attempt |-> attempt + 1])
    /\ UNCHANGED <<req, get_move_calls, engine, max_retries, tasks>>

\* any other httpx.HTTPError: a timeout, a connection error
ApiHTTPError ==
    /\ pc = "call_api"
    /\ Posted
    /\ response' = Response("HTTPError", -1)
    /\ IF Retries(attempt)
       THEN Continue(invalid_moves, "HTTPError")
       ELSE OracleFailed("Failed to get AI response",
                         [error |-> "HTTPError", attempt |-> attempt + 1])
    /\ UNCHANGED <<req, get_move_calls, engine, max_retries, tasks>>

\* the response holds no digit or not the expected structure: _call_api raises
\* AIServiceException, which get_move's except clauses do not catch
ApiParseError ==
    /\ pc = "call_api"
    /\ Posted
    /\ response' = Response("unparsable", -1)
    /\ OracleFailed("Failed to parse AI response", [error |-> "ValueError"])
    /\ UNCHANGED <<req, get_move_calls, engine, max_retries, tasks>>

----------------------------------------------------------------------------

Next ==
    \/ \E u \in Owners, d \in Difficulties : CreateGame(u, d)
    \/ \E u \in Users, g \in RequestGameIds :
        \/ GetGame(u, g)
        \/ GetGameNotFound(u, g)
        \/ MakeMoveNotFound(u, g)
    \/ \E u \in Users, status \in StatusQueries : ListGames(u, status)
    \/ \E u \in Users, g \in RequestGameIds, p \in HumanPositions :
        \/ MakeMoveGameOver(u, g, p)
        \/ MakeMoveInvalid(u, g, p)
        \/ MakeMoveWins(u, g, p)
        \/ MakeMoveDraw(u, g, p)
        \/ MakeMoveFastPath(u, g, p)
        \/ MakeMoveAsksOracle(u, g, p)
    \/ \E digit \in 0..9 :
        \/ ApiValidMove(digit)
        \/ ApiInvalidMove(digit)
    \/ ApiStatusError
    \/ ApiHTTPError
    \/ ApiParseError
    \/ Respond

Spec == Init /\ [][Next]_vars

----------------------------------------------------------------------------
(* core/game_engine.py: the static methods called on arbitrary arguments *)

Players == {"X", "O"}

\* the services are at rest
AtRest ==
    /\ db_games = <<>>
    /\ db_moves = <<>>
    /\ pc = "idle"
    /\ req = NoReq
    /\ sess_game = <<>>
    /\ sess_moves = <<>>
    /\ current_key_index = 0
    /\ attempt = 0
    /\ invalid_moves = <<>>
    /\ last_error = None
    /\ warnings = <<>>
    /\ api_calls = 0
    /\ get_move_calls = 0
    /\ key_used = <<>>
    /\ response = NoResponse
    /\ total_calls = 0
    /\ result = NoResult
    /\ tasks = <<>>

\* a board is at hand, no method was called yet
EngineInit ==
    /\ AtRest
    /\ max_retries = AI_MAX_RETRIES
    /\ \E board \in AllBoards : engine = [op |-> "none", board |-> board]

\* the method's arguments and what it returns
Called(op, position, player, out) ==
    /\ engine' = [op |-> op, board |-> engine.board, position |-> position,
                  player |-> player, out |-> out]
    /\ UNCHANGED <<db_games, db_moves, pc, req, sess_game, sess_moves,
                   current_key_index, attempt, invalid_moves, last_error, warnings,
                   api_calls, get_move_calls, key_used, response, total_calls, result,
                   max_retries, tasks>>

EngineIsValidMove(position) ==
    /\ engine.op = "none"
    /\ Called("is_valid_move", position, None, is_valid_move(engine.board, position))

EngineMakeMove(position, player) ==
    /\ engine.op = "none"
    /\ Called("make_move", position, player, make_move(engine.board, position, player))

EngineCheckWinner ==
    /\ engine.op = "none"
    /\ Called("check_winner", 0, None, check_winner(engine.board))

EngineIsBoardFull ==
    /\ engine.op = "none"
    /\ Called("is_board_full", 0, None, is_board_full(engine.board))

EngineGetAvailableMoves ==
    /\ engine.op = "none"
    /\ Called("get_available_moves", 0, None, get_available_moves(engine.board))

\* AIService._is_valid_move on the board
EngineAIIsValidMove(move) ==
    /\ engine.op = "none"
    /\ Called("_is_valid_move", move, None, _is_valid_move(engine.board, move))

\* get_move's fast path for the oracle playing player
EngineAnalyzeThreats(player) ==
    /\ engine.op = "none"
    /\ Called("_analyze_threats", 0, player,
              _analyze_threats(engine.board, IF player = "O" THEN "X" ELSE "O", player))

EngineNext ==
    \/ \E position \in HumanPositions : EngineIsValidMove(position)
    \/ \E move \in HumanPositions : EngineAIIsValidMove(move)
    \/ \E player \in Players : EngineAnalyzeThreats(player)
    \/ \E position \in Cells, player \in Players : EngineMakeMove(position, player)
    \/ EngineCheckWinner
    \/ EngineIsBoardFull
    \/ EngineGetAvailableMoves

EngineSpec == EngineInit /\ [][EngineNext]_vars

----------------------------------------------------------------------------
\* get_move under every retry limit, with transport calls that come back

\* settings.AI_MAX_RETRIES is read from the environment: no attempt, or the default
RetryLimits == {0, AI_MAX_RETRIES}

TermInit ==
    /\ AtRest
    /\ engine = NoCall
    /\ max_retries \in RetryLimits

\* client.post comes back with an answer, an error or its timeout
TransportReturns ==
    \/ \E digit \in 0..9 :
        \/ ApiValidMove(digit)
        \/ ApiInvalidMove(digit)
    \/ ApiStatusError
    \/ ApiHTTPError
    \/ ApiParseError

TermSpec == TermInit /\ [][Next]_vars /\ WF_vars(TransportReturns)

----------------------------------------------------------------------------
\* the parsing of the external model's answer, on every answer

\* boards handed to get_move: after the human's first mark on a corner or the centre
ParseBoards == {[EmptyBoard EXCEPT ![0] = "X"], [EmptyBoard EXCEPT ![4] = "X"]}

\* an answer has arrived for a board, nothing was parsed yet
ParseInit ==
    /\ AtRest
    /\ max_retries = AI_MAX_RETRIES
    /\ \E content \in Contents, board \in ParseBoards :
          engine = [op |-> "none", board |-> board, content |-> content]

\* _call_api extracts the move from the answer or raises
ParseAnswer ==
    /\ engine.op = "none"
    /\ engine' = [op |-> "_call_api", board |-> engine.board,
                  content |-> engine.content, out |-> ParsedMove(engine.content)]
    /\ UNCHANGED <<db_games, db_moves, pc, req, sess_game, sess_moves,
                   current_key_index, attempt, invalid_moves, last_error, warnings,
                   api_calls, get_move_calls, key_used, response, total_calls, result,
                   max_retries, tasks>>

\* get_move validates the move _call_api returned
ParseValidated ==
    /\ engine.op = "_call_api"
    /\ ~engine.out.raised
    /\ engine' = [op |-> "_is_valid_move", board |-> engine.board,
                  content |-> engine.content, move |-> engine.out.move,
                  out |-> _is_valid_move(engine.board, engine.out.move)]
    /\ UNCHANGED <<db_games, db_moves, pc, req, sess_game, sess_moves,
                   current_key_index, attempt, invalid_moves, last_error, warnings,
                   api_calls, get_move_calls, key_used, response, total_calls, result,
                   max_retries, tasks>>

ParseNext ==
    \/ ParseAnswer
    \/ ParseValidated

ParseSpec == ParseInit /\ [][ParseNext]_vars

----------------------------------------------------------------------------
\* make_move coroutines on the one event loop and the one AIService instance:
\* a coroutine runs alone from one await to the next (the select, client.post,
\* session.commit), and the others run while it waits

\* the coroutines in flight
NumTasks == 2
Tasks == 1..NumTasks

\* the games in the table and the positions the requests submit
TaskGameIds == {1, 2}
TaskPositions == {0, 2, 6}

\* the Move rows replayed in order on a board
RECURSIVE Replay(_, _)
Replay(moves, board) ==
    IF moves = <<>>
    THEN board
    ELSE Replay(Tail(moves),
                [board EXCEPT ![Head(moves).position] = Head(moves).player])

\* the moves played in a game before the requests arrive: none, or two turns
\* that leave a winning cell to either player
StartHistories ==
    {<<>>,
     <<[position |-> 0, player |-> "X"], [position |-> 3, player |-> "O"],
       [position |-> 1, player |-> "X"], [position |-> 4, player |-> "O"]>>}

\* the committed rows of a game in progress with this history
StartedGame(id, history) ==
    [id             |-> id,
     user_id        |-> CHOOSE u \in Owners : TRUE,
     difficulty     |-> "MEDIUM",
     opponent_type  |-> CHOOSE t \in OpponentTypes : TRUE,
     board          |-> Replay(history, EmptyBoard),
     status         |-> "in_progress",
     current_player |-> "X",
     winner         |-> None]

StartedMoves(id, history) ==
    [k \in 1..Len(history) |->
        [id |-> k, game_id |-> id, position |-> history[k].position,
         player |-> history[k].player]]

\* a request that has not loaded its game yet; the first one is for game 1, the
\* others for the same game or the other one
NewTask(game_id, position) ==
    [pc            |-> "start",
     game_id       |-> game_id,
     position      |-> position,
     loaded        |-> <<>>,
     game          |-> <<>>,
     moves         |-> <<>>,
     given         |-> <<>>,
     attempt       |-> 0,
     invalid_moves |-> <<>>,
     keys          |-> <<>>,
     ai_move       |-> <<>>,
     result        |-> "none"]

ConcInit ==
    /\ \E history \in StartHistories :
          /\ db_games = <<StartedGame(1, history), StartedGame(2, <<>>)>>
          /\ db_moves = StartedMoves(1, history)
    /\ tasks \in [Tasks -> {NewTask(g, p) : g \in TaskGameIds, p \in TaskPositions}]
    /\ tasks[1].game_id = 1
    /\ pc = "idle"
    /\ req = NoReq
    /\ sess_game = <<>>
    /\ sess_moves = <<>>
    /\ current_key_index = 0
    /\ attempt = 0
    /\ invalid_moves = <<>>
    /\ last_error = None
    /\ warnings = <<>>
    /\ api_calls = 0
    /\ get_move_calls = 0
    /\ key_used = <<>>
    /\ response = NoResponse
    /\ total_calls = 0
    /\ result = NoResult
    /\ engine = NoCall
    /\ max_retries = AI_MAX_RETRIES

\* what the single request of the other specifications holds stays as it is
NoRequest ==
    UNCHANGED <<pc, req, sess_game, sess_moves, attempt, invalid_moves, last_error,
                warnings, api_calls, get_move_calls, key_used, response, total_calls,
                result, engine, max_retries>>

\* the row the coroutine's select returns
TaskLoads(t) == db_games[RowOf(tasks[t].game_id)]

\* the coroutine ends: by an exception the session is closed without a commit
TaskEnds(t, kind) ==
    /\ tasks' = [tasks EXCEPT ![t].pc = "done", ![t].result = kind]
    /\ Rollback

\* _call_api takes the next key and posts; the coroutine waits for the answer
TaskPosts(t, task) ==
    LET k == _get_next_api_key(current_key_index) IN
        /\ ~k.raised
        /\ current_key_index' = k.next
        /\ tasks' = [tasks EXCEPT ![t] = [task EXCEPT !.pc = "post",
                                                      !.keys = Append(@, k.key)]]
        /\ Rollback

\* the game is over or the position is not a free cell: the request is refused
TaskRejected(t) ==
    /\ tasks[t].pc = "start"
    /\ LET game == TaskLoads(t) IN
        /\ IsOver(game) \/ ~is_valid_move(game.board, tasks[t].position)
        /\ TaskEnds(t, IF IsOver(game) THEN "GameOverException"
                       ELSE "InvalidMoveException")
    /\ UNCHANGED current_key_index
    /\ NoRequest

\* the human's mark wins or fills the board: the game is ready to be committed
TaskEndsGame(t) ==
    /\ tasks[t].pc = "start"
    /\ LET game == TaskLoads(t) IN
        /\ ~IsOver(game)
        /\ is_valid_move(game.board, tasks[t].position)
        /\ LET moved  == HumanMove(game, tasks[t].position)
               winner == check_winner(moved.board)
           IN /\ winner # None \/ is_board_full(moved.board)
              /\ tasks' = [tasks EXCEPT
                    ![t].pc = "commit",
                    ![t].loaded = <<game>>,
                    ![t].game = <<IF winner # None
                                  THEN [moved EXCEPT !.status = "finished",
                                                     !.winner = winner]
                                  ELSE [moved EXCEPT !.status = "draw"]>>,
                    ![t].moves = <<Move(game, tasks[t].position, "X")>>]
    /\ Rollback
    /\ UNCHANGED current_key_index
    /\ NoRequest

\* the oracle has a winning cell: get_move returns it without a transport call
TaskFastPath(t) ==
    /\ tasks[t].pc = "start"
    /\ LET game == TaskLoads(t) IN
        /\ Continues(game, tasks[t].position)
        /\ LET moved == HumanMove(game, tasks[t].position)
               cell  == FastPath(moved.board).your_win_pos
           IN /\ FastPath(moved.board).you_can_win
              /\ tasks' = [tasks EXCEPT
                    ![t].pc = "commit",
                    ![t].loaded = <<game>>,
                    ![t].given = <<moved.board>>,
                    ![t].game = <<AIMove(moved, cell)>>,
                    ![t].moves = <<Move(game, tasks[t].position, "X"),
                                   Move(game, cell, "O")>>,
                    ![t].ai_move = <<cell>>]
    /\ Rollback
    /\ UNCHANGED current_key_index
    /\ NoRequest

\* get_move enters its loop and posts the first call
TaskAsksOracle(t) ==
    /\ tasks[t].pc = "start"
    /\ LET game == TaskLoads(t) IN
        /\ Continues(game, tasks[t].position)
        /\ LET moved == HumanMove(game, tasks[t].position) IN
            /\ ~FastPath(moved.board).you_can_win
            /\ IF InRange(0)
               THEN TaskPosts(t, [tasks[t] EXCEPT
                        !.loaded = <<game>>,
                        !.given = <<moved.board>>,
                        !.game = <<moved>>,
                        !.moves = <<Move(game, tasks[t].position, "X")>>])
               ELSE TaskEnds(t, "AIServiceException") /\ UNCHANGED current_key_index
    /\ NoRequest

\* the answer's first digit is a free cell of the coroutine's board
TaskGetsValidMove(t, digit) ==
    /\ tasks[t].pc = "post"
    /\ digit \in OracleDigits(tasks[t].given[1])
    /\ _is_valid_move(tasks[t].given[1], digit)
    /\ tasks' = [tasks EXCEPT
          ![t].pc = "commit",
          ![t].game = <<AIMove(tasks[t].game[1], digit)>>,
          ![t].moves = Append(@, Move(tasks[t].game[1], digit, "O")),
          ![t].ai_move = <<digit>>]
    /\ Rollback
    /\ UNCHANGED current_key_index
    /\ NoRequest

\* the answer's first digit is no free cell: recorded, then the next call or the error
TaskGetsInvalidMove(t, digit) ==
    /\ tasks[t].pc = "post"
    /\ digit \in OracleDigits(tasks[t].given[1])
    /\ ~_is_valid_move(tasks[t].given[1], digit)
    /\ IF Retries(tasks[t].attempt)
       THEN TaskPosts(t, [tasks[t] EXCEPT
                !.attempt = NextAttempt(@),
                !.invalid_moves = Append(@, digit)])
       ELSE TaskEnds(t, "AIServiceException") /\ UNCHANGED current_key_index
    /\ NoRequest

\* the call failed or timed out: the next call or the error
TaskGetsError(t) ==
    /\ tasks[t].pc = "post"
    /\ IF Retries(tasks[t].attempt)
       THEN TaskPosts(t, [tasks[t] EXCEPT !.attempt = NextAttempt(@)])
       ELSE TaskEnds(t, "AIServiceException") /\ UNCHANGED current_key_index
    /\ NoRequest

\* the answer holds no digit: _call_api raises and get_move does not catch it
TaskGetsUnparsable(t) ==
    /\ tasks[t].pc = "post"
    /\ TaskEnds(t, "AIServiceException")
    /\ UNCHANGED current_key_index
    /\ NoRequest

\* the UPDATE the flush issues: the attributes the session changed, on the row
\* as it is committed now
Flushed(row, loaded, game) ==
    [row EXCEPT
        !.board  = IF game.board # loaded.board THEN game.board ELSE @,
        !.status = IF game.status # loaded.status THEN game.status ELSE @,
        !.winner = IF game.winner # loaded.winner THEN game.winner ELSE @]

\* session.commit(): the game is updated and the new Move rows are inserted
TaskCommits(t) ==
    /\ tasks[t].pc = "commit"
    /\ db_games' = [db_games EXCEPT ![RowOf(tasks[t].game_id)] =
                        Flushed(@, tasks[t].loaded[1], tasks[t].game[1])]
    /\ db_moves' = db_moves \o Inserted(tasks[t].moves)
    /\ tasks' = [tasks EXCEPT ![t].pc = "done", ![t].result = "MovePublic"]
    /\ UNCHANGED current_key_index
    /\ NoRequest

ConcNext ==
    \E t \in Tasks :
        \/ TaskRejected(t)
        \/ TaskEndsGame(t)
        \/ TaskFastPath(t)
        \/ TaskAsksOracle(t)
        \/ \E digit \in 0..9 :
            \/ TaskGetsValidMove(t, digit)
            \/ TaskGetsInvalidMove(t, digit)
        \/ TaskGetsError(t)
        \/ TaskGetsUnparsable(t)
        \/ TaskCommits(t)

ConcSpec == ConcInit /\ [][ConcNext]_vars

----------------------------------------------------------------------------
(* Properties *)

\* mark holds all three cells of some line
HasLine(board, mark) ==
    \E k \in 1..Len(WIN_COMBINATIONS) :
        \A j \in 1..3 : board[WIN_COMBINATIONS[k][j]] = mark

\* the empty cells that complete a line of mark: the third cell of a line whose
\* other two cells hold mark
WinningCells(board, mark) ==
    {c \in Cells :
        /\ board[c] = " "
        /\ \E k \in 1..Len(WIN_COMBINATIONS) :
              /\ \E j \in 1..3 : WIN_COMBINATIONS[k][j] = c
              /\ \A j \in 1..3 :
                    WIN_COMBINATIONS[k][j] # c => board[WIN_COMBINATIONS[k][j]] = mark}

\* a make_move request starts in this step and finds its game
MoveStarts ==
    /\ pc = "idle"
    /\ req'.op = "make_move"
    /\ FindGame(req'.game_id, req'.user_id) # {}

\* the committed row of the request's game before and after the step
Before == db_games[RowOf(req'.game_id)]
After == db_games'[RowOf(req'.game_id)]

\* the board with the human's mark on the submitted cell
Marked == [Before.board EXCEPT ![req'.position] = "X"]

\* the submitted position is a free cell of a game in progress
Legal ==
    /\ Before.status = "in_progress"
    /\ req'.position \in Cells
    /\ Before.board[req'.position] = " "

\* the step issues no get_move call, no transport call and leaves the key index
NoOracle ==
    /\ get_move_calls' = 0
    /\ api_calls' = 0
    /\ current_key_index' = current_key_index

\* rows of the move table for a game at a position
MovesAt(moves, game_id, position) ==
    {k \in 1..Len(moves) :
        moves[k].game_id = game_id /\ moves[k].position = position}

C2_HumanWinEndsGame ==
    [][(MoveStarts /\ Legal /\ HasLine(Marked, "X")) =>
          /\ pc' = "done"
          /\ After = [Before EXCEPT !.board = Marked, !.status = "finished",
                                    !.winner = "X"]
          /\ result'.kind = "MovePublic"
          /\ result'.body.board = Marked
          /\ result'.body.status = "finished"
          /\ result'.body.winner = "X"
          /\ result'.body.ai_move = <<>>
          /\ NoOracle]_vars

C2_Witness ==
    /\ pc = "done"
    /\ req.op = "make_move"
    /\ result.kind = "MovePublic"
    /\ result.body.winner = "X"
    /\ HasLine(db_games[RowOf(req.game_id)].board, "X")

\* C3: a legal human move that fills the last empty cell without completing a
\* line ends the request at once: the game is committed as a draw without a
\* winner, and no get_move call, transport call or key advance happens.
C3_HumanDrawEndsGame ==
    [][(/\ MoveStarts
        /\ Legal
        /\ \A c \in Cells : Marked[c] # " "
        /\ ~HasLine(Marked, "X")
        /\ ~HasLine(Marked, "O")) =>
          /\ pc' = "done"
          /\ After = [Before EXCEPT !.board = Marked, !.status = "draw"]
          /\ After.winner = None
          /\ result'.kind = "MovePublic"
          /\ result'.body.status = "draw"
          /\ result'.body.winner = None
          /\ result'.body.ai_move = <<>>
          /\ NoOracle]_vars

C3_Witness ==
    /\ pc = "done"
    /\ req.op = "make_move"
    /\ result.kind = "MovePublic"
    /\ result.body.status = "draw"
    /\ db_games[RowOf(req.game_id)].status = "draw"

\* C4: make_move on a game that is not in progress raises GameOverException with
\* the game's status and winner, leaves the game and move tables unchanged and
\* makes no oracle call.
C4_GameOverRejected ==
    [][(MoveStarts /\ Before.status # "in_progress") =>
          /\ pc' = "done"
          /\ result'.kind = "GameOverException"
          /\ result'.body = [status |-> Before.status, winner |-> Before.winner]
          /\ db_games' = db_games
          /\ db_moves' = db_moves
          /\ NoOracle]_vars

C4_Witness ==
    /\ pc = "done"
    /\ result.kind = "GameOverException"
    /\ result.body.status = "finished"
    /\ result.body.winner = "O"

\* C5: make_move on a game in progress with a position outside 0..8 or on an
\* occupied cell raises InvalidMoveException with the position and the board,
\* leaves the game and move tables unchanged and makes no oracle call.
C5_InvalidMoveRejected ==
    [][(/\ MoveStarts
        /\ Before.status = "in_progress"
        /\ (req'.position \notin Cells \/ Before.board[req'.position] # " ")) =>
          /\ pc' = "done"
          /\ result'.kind = "InvalidMoveException"
          /\ result'.body = [position |-> req'.position, board |-> Before.board]
          /\ db_games' = db_games
          /\ db_moves' = db_moves
          /\ NoOracle]_vars

\* a cell taken by the oracle was submitted
C5_Witness ==
    /\ pc = "done"
    /\ result.kind = "InvalidMoveException"
    /\ result.body.position \in Cells
    /\ result.body.board[result.body.position] = "O"

\* C6: no step removes a game; a game's status changes only from in_progress to
\* finished or draw; a finished or drawn game's row (board, status, winner)
\* never changes again.
C6_StatusMonotonic ==
    [][/\ Len(db_games') >= Len(db_games)
       /\ \A k \in 1..Len(db_games) :
            /\ db_games[k].status # "in_progress" => db_games'[k] = db_games[k]
            /\ db_games'[k].status # db_games[k].status =>
                 /\ db_games[k].status = "in_progress"
                 /\ db_games'[k].status \in {"finished", "draw"}]_vars

\* a move was submitted to a finished game that still has free cells
C6_Witness ==
    /\ pc = "done"
    /\ req.op = "make_move"
    /\ FindGame(req.game_id, req.user_id) # {}
    /\ db_games[RowOf(req.game_id)].status = "finished"
    /\ req.position \in Cells
    /\ db_games[RowOf(req.game_id)].board[req.position] = " "
    /\ result.kind = "GameOverException"

\* C7: in every committed game the winner is set exactly when the status is
\* finished, and the winner's mark holds a complete line of the board.
C7_WinnerIffFinished ==
    \A k \in 1..Len(db_games) :
        /\ db_games[k].winner # None <=> db_games[k].status = "finished"
        /\ db_games[k].winner # None => HasLine(db_games[k].board, db_games[k].winner)

C7_Witness ==
    \E k \in 1..Len(db_games) :
        db_games[k].status = "finished" /\ db_games[k].winner = "O"

\* C8: in every committed game with status draw the board has no empty cell
\* and no line of three equal marks.
C8_DrawIsFullWithoutLine ==
    \A k \in 1..Len(db_games) :
        db_games[k].status = "draw" =>
            /\ \A c \in Cells : db_games[k].board[c] # " "
            /\ ~HasLine(db_games[k].board, "X")
            /\ ~HasLine(db_games[k].board, "O")

C8_Witness == \E k \in 1..Len(db_games) : db_games[k].status = "draw"

\* C9: when the board handed to get_move has a line with two of the oracle's
\* marks and the third cell empty, get_move returns the empty cell of such a
\* line without a transport call, an attempt or a key advance, whatever the
\* difficulty; and for every board and either mark the threat scan reports
\* such a cell.
C9_FastPath ==
    [][/\ (MoveStarts /\ Legal /\ ~HasLine(Marked, "X")
           /\ WinningCells(Marked, "O") # {}) =>
             /\ pc' = "done"
             /\ result'.kind = "MovePublic"
             /\ \E c \in WinningCells(Marked, "O") : result'.body.ai_move = <<c>>
             /\ get_move_calls' = 1
             /\ api_calls' = 0
             /\ attempt' = 0
             /\ current_key_index' = current_key_index
       /\ db_games = <<>> =>
             \A board \in AllBoards, mark \in {"X", "O"} :
                WinningCells(board, mark) # {} =>
                    LET t == _analyze_threats(board, get_opponent(mark), mark) IN
                        /\ t.you_can_win
                        /\ t.your_win_pos \in WinningCells(board, mark)]_vars

\* the oracle won by the fast path, for a game of hard difficulty
C9_Witness ==
    /\ pc = "done"
    /\ result.kind = "MovePublic"
    /\ result.body.winner = "O"
    /\ get_move_calls = 1
    /\ api_calls = 0
    /\ db_games[RowOf(req.game_id)].difficulty = "HARD"

\* C10: a get_move invocation issues at most AI_MAX_RETRIES transport calls,
\* whatever the outcomes of the calls.
C10_CallsBounded == get_move_calls <= 1 /\ api_calls <= AI_MAX_RETRIES

\* the last allowed call returned a valid move after two failed ones
C10_Witness ==
    /\ pc = "done"
    /\ result.kind = "MovePublic"
    /\ api_calls = AI_MAX_RETRIES

\* the board get_move is called with by the request in flight
OracleBoard == IF pc = "idle" THEN Marked ELSE sess_game[1].board

\* a transport call is issued in this step
Calls == pc = "call_api" /\ api_calls' = api_calls + 1

TransportErrors == {"HTTPStatusError", "HTTPError"}

\* C11: whenever get_move returns a position, by the fast path or from the
\* transport loop, the position is in 0..8 and that cell of the board get_move
\* was called with is empty.
C11_ReturnedMoveIsFreeCell ==
    [][(pc' = "done" /\ result'.kind = "MovePublic" /\ result'.body.ai_move # <<>>) =>
          LET move == result'.body.ai_move[1] IN
              /\ move \in Cells
              /\ OracleBoard[move] = " "]_vars

\* a position was returned by the second transport call, after a retry
C11_Witness ==
    /\ pc = "done"
    /\ result.kind = "MovePublic"
    /\ result.body.ai_move # <<>>
    /\ response.kind = "digit"
    /\ api_calls = 2

\* C12: a transport failure consumes exactly one attempt; when attempts remain
\* the loop goes on (recording the error) and the call after it uses the next
\* credential; on the last attempt get_move fails with AIServiceException
\* carrying that transport error.
C12_TransportFailureRetries ==
    [][/\ (Calls /\ response'.kind \in TransportErrors) =>
             IF api_calls' < AI_MAX_RETRIES
             THEN /\ pc' = "call_api"
                  /\ attempt' = attempt + 1
                  /\ last_error' = response'.kind
             ELSE /\ pc' = "done"
                  /\ result'.kind = "AIServiceException"
                  /\ result'.message = "Failed to get AI response"
                  /\ result'.body.error = response'.kind
                  /\ result'.body.attempt = AI_MAX_RETRIES
       /\ (Calls /\ response.kind \in TransportErrors) =>
             key_used' = <<(key_used[1] + 1) % NumKeys>>]_vars

\* two transport failures were retried
C12_Witness ==
    /\ pc = "call_api"
    /\ response.kind \in TransportErrors
    /\ attempt = 2
    /\ api_calls = 2

\* C13 as stated: an answer without a digit or of another structure consumes one
\* attempt and, when attempts remain, is retried; get_move fails because of it
\* only when the attempts are used up.
C13_ParseErrorRetried ==
    [][(Calls /\ response'.kind = "unparsable") =>
          IF api_calls' < AI_MAX_RETRIES
          THEN pc' = "call_api" /\ attempt' = attempt + 1
          ELSE pc' = "done" /\ result'.kind = "AIServiceException"]_vars

\* C14: an invalid answer is appended to invalid_moves (and reported with the
\* whole list when it was the last attempt); a transport failure keeps the
\* list; and whenever a call is about to be made with a non-empty list, the
\* prompt's latest warning names every invalid answer so far and the empty cells
\* that are not among them.
C14_InvalidMovesInPrompt ==
    [][/\ (Calls /\ response'.kind = "digit"
                 /\ ~(response'.digit \in Cells /\ OracleBoard[response'.digit] = " ")) =>
             IF api_calls' < AI_MAX_RETRIES
             THEN pc' = "call_api"
                  /\ invalid_moves' = Append(invalid_moves, response'.digit)
             ELSE result'.body.invalid_attempts = Append(invalid_moves, response'.digit)
       /\ (Calls /\ response'.kind \in TransportErrors /\ pc' = "call_api") =>
             invalid_moves' = invalid_moves
       /\ (pc = "call_api" /\ invalid_moves # <<>>) =>
             /\ PromptNow # <<>>
             /\ LET warning == PromptNow[Len(PromptNow)]
                    listed  == {invalid_moves[j] : j \in 1..Len(invalid_moves)}
                IN /\ warning.invalid = invalid_moves
                   /\ warning.available =
                        {c \in Cells : OracleBoard[c] = " " /\ c \notin listed}]_vars

\* an invalid answer was listed in the second call's prompt, that call failed in
\* transport, and the third call is about to be made with the answer retained
C14_Witness ==
    /\ pc = "call_api"
    /\ attempt = 2
    /\ Len(invalid_moves) = 1
    /\ warnings # <<>>
    /\ response.kind \in TransportErrors

\* C15 as stated: when get_move fails on its last attempt, by an invalid answer
\* or by a transport failure, the exception carries every invalid answer of the
\* invocation and the last transport error of the invocation, if there was one.
C15_ErrorCarriesEverything ==
    [][(/\ Calls
        /\ api_calls' = AI_MAX_RETRIES
        /\ response'.kind \in TransportErrors \cup {"digit"}
        /\ pc' = "done"
        /\ result'.kind = "AIServiceException") =>
          LET all_invalid == IF response'.kind = "digit"
                             THEN Append(invalid_moves, response'.digit)
                             ELSE invalid_moves
              error == IF response'.kind \in TransportErrors
                       THEN response'.kind ELSE last_error
              fields == DOMAIN result'.body
          IN /\ all_invalid # <<>> =>
                  /\ "invalid_attempts" \in fields
                  /\ result'.body.invalid_attempts = all_invalid
             /\ error # None =>
                  \/ "error" \in fields /\ result'.body.error = error
                  \/ "last_error" \in fields /\ result'.body.last_error = error]_vars

\* C16: the k-th transport call of the AIService instance, whatever the calls
\* before it came back with and whichever invocation they belonged to, uses
\* key number (k-1) mod NumKeys; the key index stays in 0..NumKeys-1, advances
\* by one and wraps on every call, and moves on no other step.
C16_KeyRoundRobin ==
    [][/\ current_key_index \in 0..(NumKeys - 1)
       /\ current_key_index' \in 0..(NumKeys - 1)
       /\ IF api_calls' = api_calls + 1
          THEN /\ key_used' = <<total_calls>>
               /\ current_key_index' = (current_key_index + 1) % NumKeys
          ELSE current_key_index' = current_key_index]_vars

\* the first call of a later invocation used the second key
C16_Witness ==
    /\ pc = "call_api"
    /\ api_calls = 1
    /\ key_used = <<1>>

\* C17: get_move's transport loop starts with attempt 0, no invalid answers, no
\* recorded error and the plain prompt, whatever earlier invocations did; an
\* invocation answered by the fast path changes none of these, nor the key
\* index, nor the count of transport calls.
C17_LocalsFresh ==
    [][/\ (pc = "idle" /\ pc' = "call_api") =>
             /\ attempt' = 0
             /\ invalid_moves' = <<>>
             /\ last_error' = None
             /\ warnings' = <<>>
             /\ api_calls' = 0
       /\ (MoveStarts /\ Legal /\ ~HasLine(Marked, "X")
           /\ WinningCells(Marked, "O") # {}) =>
             /\ attempt' = attempt
             /\ invalid_moves' = invalid_moves
             /\ last_error' = last_error
             /\ current_key_index' = current_key_index
             /\ total_calls' = total_calls
             /\ key_used' = key_used]_vars

\* no move was ever committed, yet the key index has advanced: every earlier
\* invocation failed, and a new transport loop starts
C17_Witness ==
    /\ pc = "call_api"
    /\ api_calls = 0
    /\ attempt = 0
    /\ db_moves = <<>>
    /\ current_key_index = 1

\* cells of game row k whose committed content changes in this step
Changed(k) == {c \in Cells : db_games'[k].board[c] # db_games[k].board[c]}

\* the positions of the moves a returned MovePublic reports: the human's, then
\* the oracle's when there is one
Reported == <<result'.body.position>> \o result'.body.ai_move

\* C18: every applied move changes exactly one cell, from empty to the mover's
\* mark: a request that returns a MovePublic changes the human's cell to X and,
\* when the oracle moved, one other cell to O; the board handed to get_move
\* differs from the committed board by the human's cell only; nothing else
\* changes a committed board.
C18_OneCellPerMove ==
    [][/\ \A k \in 1..Len(db_games) :
            /\ \A c \in Changed(k) : db_games[k].board[c] = " "
            /\ Cardinality({c \in Changed(k) : db_games'[k].board[c] = "X"}) <= 1
            /\ Cardinality({c \in Changed(k) : db_games'[k].board[c] = "O"}) <= 1
            /\ Changed(k) # {} =>
                 /\ pc' = "done"
                 /\ result'.kind = "MovePublic"
                 /\ k = RowOf(req'.game_id)
       /\ (pc' = "done" /\ result'.kind = "MovePublic") =>
             /\ Cardinality(Changed(RowOf(req'.game_id))) = Len(Reported)
             /\ After.board[Reported[1]] = "X"
             /\ Len(Reported) = 2 => After.board[Reported[2]] = "O"
       /\ (pc = "idle" /\ pc' = "call_api") =>
             /\ Before.board[req'.position] = " "
             /\ sess_game'[1].board = [Before.board EXCEPT ![req'.position] = "X"]]_vars

\* the oracle's second move of a game was applied and the game goes on
C18_Witness ==
    /\ pc = "done"
    /\ result.kind = "MovePublic"
    /\ result.body.ai_move # <<>>
    /\ result.body.status = "in_progress"
    /\ Len(db_moves) = 4

\* number of marks of a player on a board
Marks(board, player) == Cardinality({c \in Cells : board[c] = player})

\* C19 as stated: in every committed game current_player is X when the board
\* holds as many X as O, and O when it holds one X more.
C19_CurrentPlayerParity ==
    \A k \in 1..Len(db_games) :
        LET board == db_games[k].board IN
            /\ Marks(board, "X") = Marks(board, "O") =>
                 db_games[k].current_player = "X"
            /\ Marks(board, "X") = Marks(board, "O") + 1 =>
                 db_games[k].current_player = "O"

\* C20: the move table only grows at its end and its rows never change; a step
\* appends one row per cell it changes on a committed board, carrying the game
\* id, the cell's position and the mark now on it; a request rejected by
\* NotFound, GameOver or InvalidMove appends nothing.
C20_HistoryAppendOnly ==
    [][/\ Len(db_moves') >= Len(db_moves)
       /\ SubSeq(db_moves', 1, Len(db_moves)) = db_moves
       /\ LET added == SubSeq(db_moves', Len(db_moves) + 1, Len(db_moves'))
              cells == {kc \in (1..Len(db_games)) \X Cells : kc[2] \in Changed(kc[1])}
          IN /\ Len(added) = Cardinality(cells)
             /\ \A j \in 1..Len(added) :
                  LET k == RowOf(added[j].game_id) IN
                      /\ added[j].position \in Changed(k)
                      /\ added[j].player = db_games'[k].board[added[j].position]
             /\ \A i, j \in 1..Len(added) :
                  i # j => added[i].position # added[j].position
       /\ (pc' = "done" /\ result'.kind \in {"NotFoundException", "GameOverException",
                                             "InvalidMoveException"}) =>
             db_moves' = db_moves]_vars

\* a move was rejected on a game that has a history of four moves
C20_Witness ==
    /\ pc = "done"
    /\ result.kind = "InvalidMoveException"
    /\ Len(db_moves) = 4

\* a MovePublic that reports an oracle position is returned in this step
OracleReplied ==
    /\ pc' = "done"
    /\ result'.kind = "MovePublic"
    /\ result'.body.ai_move # <<>>

\* C21: when a legal human move neither wins nor fills the board and get_move
\* returns a position, make_move returns the previous board plus X at the
\* submitted position and O at the oracle's position, the committed status and
\* winner, and the oracle's position; the committed board is the returned one.
C21_OracleReplyResult ==
    [][/\ OracleReplied =>
             LET position == req'.position
                 ai_move  == result'.body.ai_move[1]
             IN /\ result'.body.position = position
                /\ result'.body.board =
                      [Before.board EXCEPT ![position] = "X", ![ai_move] = "O"]
                /\ After.board = result'.body.board
                /\ result'.body.status = After.status
                /\ result'.body.winner = After.winner
                /\ IF Calls THEN ai_move = response'.digit
                   ELSE ai_move \in WinningCells(Marked, "O")
       /\ (/\ Calls
           /\ response'.kind = "digit"
           /\ response'.digit \in Cells
           /\ OracleBoard[response'.digit] = " ") =>
             /\ OracleReplied
             /\ result'.body.ai_move = <<response'.digit>>]_vars

\* the first turn of a game: the human's mark and the oracle's reply
C21_Witness ==
    /\ pc = "done"
    /\ result.kind = "MovePublic"
    /\ result.body.ai_move # <<>>
    /\ result.body.status = "in_progress"
    /\ api_calls = 1
    /\ Len(db_moves) = 2

\* C22: after the oracle's mark is applied the checks are run on the new board:
\* a complete line of O commits finished with winner O, else a full board
\* commits draw, else the game stays in progress; no winner in the last two.
C22_ChecksAfterOracleMove ==
    [][OracleReplied =>
          /\ After.board[result'.body.ai_move[1]] = "O"
          /\ IF HasLine(After.board, "O")
             THEN After.status = "finished" /\ After.winner = "O"
             ELSE IF \A c \in Cells : After.board[c] # " "
                  THEN After.status = "draw" /\ After.winner = None
                  ELSE After.status = "in_progress" /\ After.winner = None]_vars

\* the oracle's third move completed its line
C22_Witness ==
    /\ pc = "done"
    /\ result.kind = "MovePublic"
    /\ result.body.ai_move # <<>>
    /\ result.body.winner = "O"
    /\ Len(db_moves) = 6

\* C23: create_game appends one game row with nine empty cells, status in
\* progress, no winner, X to move, the requested difficulty and the caller as
\* owner, under an id no other row has; no Move row of that game exists and
\* the other rows are untouched.
C23_CreateGame ==
    [][(pc = "idle" /\ req'.op = "create_game") =>
          /\ Len(db_games') = Len(db_games) + 1
          /\ SubSeq(db_games', 1, Len(db_games)) = db_games
          /\ db_moves' = db_moves
          /\ LET game == db_games'[Len(db_games')] IN
                /\ DOMAIN game.board = Cells
                /\ \A c \in Cells : game.board[c] = " "
                /\ game.status = "in_progress"
                /\ game.winner = None
                /\ game.current_player = "X"
                /\ game.difficulty = req'.difficulty
                /\ game.user_id = req'.user_id
                /\ \A k \in 1..Len(db_games) : db_games[k].id # game.id
                /\ \A k \in 1..Len(db_moves') : db_moves'[k].game_id # game.id
                /\ result'.kind = "GamePublic"
                /\ result'.body.id = game.id]_vars

C23_Witness ==
    /\ pc = "done"
    /\ req.op = "create_game"
    /\ req.difficulty = "HARD"
    /\ db_games[Len(db_games)].difficulty = "HARD"

\* a row with the requested id and the caller as owner exists
Owned ==
    \E k \in 1..Len(db_games) :
        db_games[k].id = req'.game_id /\ db_games[k].user_id = req'.user_id

\* C24: make_move and get_game on an id that no game has, or that a game of
\* another owner has, raise NotFoundException and leave the game and move
\* tables unchanged; get_game returns only a game of the caller, and no step
\* changes a game row of another owner than the caller.
C24_NotFound ==
    [][/\ (pc = "idle" /\ req'.op \in {"make_move", "get_game"} /\ ~Owned) =>
             /\ pc' = "done"
             /\ result'.kind = "NotFoundException"
             /\ db_games' = db_games
             /\ db_moves' = db_moves
             /\ NoOracle
       /\ (pc = "idle" /\ req'.op = "get_game" /\ Owned) =>
             /\ result'.kind = "GamePublic"
             /\ result'.body.id = req'.game_id
             /\ result'.body.user_id = req'.user_id
             /\ db_games' = db_games
             /\ db_moves' = db_moves
       /\ \A k \in 1..Len(db_games) :
             db_games[k].user_id # req'.user_id => db_games'[k] = db_games[k]]_vars

\* another user asked for a game that exists and has moves
C24_Witness ==
    /\ pc = "done"
    /\ result.kind = "NotFoundException"
    /\ req.op = "get_game"
    /\ \E k \in 1..Len(db_games) :
          db_games[k].id = req.game_id /\ db_games[k].user_id # req.user_id
    /\ db_moves # <<>>

\* the boards the move-application protocol has produced: committed or in a session
ProtocolBoards ==
    {db_games[k].board : k \in 1..Len(db_games)}
        \cup {sess_game[k].board : k \in 1..Len(sess_game)}

\* the marks that hold all three cells of line k
LineMark(board, k) ==
    {m \in {"X", "O"} : \A j \in 1..3 : board[WIN_COMBINATIONS[k][j]] = m}

\* C26: on every board the protocol produces at most one of the two marks has
\* a complete line, and check_winner returns the mark of every complete line,
\* whichever comes first in the enumeration.
C26_OneWinnerAtMost ==
    \A board \in ProtocolBoards :
        /\ ~(HasLine(board, "X") /\ HasLine(board, "O"))
        /\ \A k \in 1..Len(WIN_COMBINATIONS) :
              \A m \in LineMark(board, k) : check_winner(board) = m

\* the winning move completed two lines at once
C26_Witness ==
    \E board \in ProtocolBoards :
        Cardinality({k \in 1..Len(WIN_COMBINATIONS) : LineMark(board, k) # {}}) = 2

\* the eight lines in the order rows, columns, diagonals
FixedLines ==
    << {0, 1, 2}, {3, 4, 5}, {6, 7, 8},
       {0, 3, 6}, {1, 4, 7}, {2, 5, 8},
       {0, 4, 8}, {2, 4, 6} >>

\* mark m is on every cell of the line
Owns(board, m, line) == \A c \in line : board[c] = m

\* the lines whose three cells hold the same mark
Qualifying(board) ==
    {k \in 1..Len(FixedLines) : \E m \in Players : Owns(board, m, FixedLines[k])}

\* C25: for every board check_winner returns a mark only if that mark holds a
\* whole line, returns None exactly when no line holds three equal marks, and
\* with several such lines returns the mark of the first in the order rows,
\* columns, diagonals.
C25_CheckWinner ==
    engine.op = "check_winner" =>
        LET board == engine.board
            whole == Qualifying(board)
        IN /\ engine.out \in Players \cup {None}
           /\ engine.out # None =>
                \E k \in 1..Len(FixedLines) : Owns(board, engine.out, FixedLines[k])
           /\ engine.out = None <=> whole = {}
           /\ \A k \in whole :
                (\A j \in whole : k <= j) => Owns(board, engine.out, FixedLines[k])

\* O holds the first row and X the second: the first row decides
C25_Witness ==
    /\ engine.op = "check_winner"
    /\ Owns(engine.board, "O", {0, 1, 2})
    /\ Owns(engine.board, "X", {3, 4, 5})
    /\ engine.out = "O"

\* C27: make_move with a position in 0..8 returns a board with the mark at the
\* position and the input's content everywhere else; the input board is the
\* same after the call.
C27_MakeMoveFrame ==
    [][(engine.op = "none" /\ engine'.op = "make_move") =>
          /\ engine'.board = engine.board
          /\ DOMAIN engine'.out = Cells
          /\ engine'.out[engine'.position] = engine'.player
          /\ \A i \in Cells \ {engine'.position} : engine'.out[i] = engine.board[i]]_vars

\* a cell held by X was given to O: make_move itself validates nothing
C27_Witness ==
    /\ engine.op = "make_move"
    /\ engine.board[engine.position] = "X"
    /\ engine.player = "O"
    /\ engine.out[engine.position] = "O"

\* C28: for every board, position in 0..8 and mark, is_valid_move on the board
\* make_move returned, at the same position, is false.
C28_MoveThenInvalid ==
    engine.op = "make_move" => ~is_valid_move(engine.out, engine.position)

\* the position was a valid move before the call
C28_Witness ==
    /\ engine.op = "make_move"
    /\ is_valid_move(engine.board, engine.position)
    /\ engine.out # engine.board

\* C29: for every board get_available_moves is the strictly ascending list of
\* exactly the empty indices, so with the occupied indices it partitions 0..8;
\* is_board_full is true exactly when that list is empty.
C29_AvailableMoves ==
    /\ engine.op = "get_available_moves" =>
          LET out      == engine.out
              listed   == {out[k] : k \in 1..Len(out)}
              occupied == {i \in Cells : engine.board[i] # " "}
          IN /\ \A k \in 1..(Len(out) - 1) : out[k] < out[k + 1]
             /\ listed = {i \in Cells : engine.board[i] = " "}
             /\ listed \cap occupied = {}
             /\ listed \cup occupied = Cells
             /\ is_board_full(engine.board) <=> out = <<>>
    /\ engine.op = "is_board_full" =>
          /\ engine.out <=> get_available_moves(engine.board) = <<>>
          /\ engine.out <=> \A i \in Cells : engine.board[i] # " "

\* the empty cells are one diagonal
C29_Witness ==
    /\ engine.op = "get_available_moves"
    /\ engine.out = <<0, 4, 8>>

\* C30: for every board and position is_valid_move is true exactly when the
\* position is in 0..8 and the cell there is empty; positions outside 0..8 are
\* rejected, the board having no cell there to read.
C30_IsValidMove ==
    engine.op = "is_valid_move" =>
        (engine.out <=>
            /\ engine.position >= 0
            /\ engine.position <= 8
            /\ engine.board[engine.position] = " ")

\* position -1 is rejected although the last cell is empty
C30_Witness ==
    /\ engine.op = "is_valid_move"
    /\ engine.position = -1
    /\ engine.board[8] = " "
    /\ engine.out = FALSE

\* C33: a legal human move that fills the last empty cell and completes a line
\* of three X commits the game finished with winner X, never as a draw: the
\* winner check comes before the full-board check.
C33_FullBoardWinIsWin ==
    [][(/\ MoveStarts
        /\ Legal
        /\ \A c \in Cells : Marked[c] # " "
        /\ HasLine(Marked, "X")) =>
          /\ pc' = "done"
          /\ After.board = Marked
          /\ After.status = "finished"
          /\ After.winner = "X"
          /\ result'.kind = "MovePublic"
          /\ result'.body.status = "finished"
          /\ result'.body.winner = "X"]_vars

\* the human's fifth mark filled the board and completed a line
C33_Witness ==
    /\ pc = "done"
    /\ req.op = "make_move"
    /\ result.kind = "MovePublic"
    /\ result.body.status = "finished"
    /\ result.body.winner = "X"
    /\ \A c \in Cells : db_games[RowOf(req.game_id)].board[c] # " "
    /\ db_games[RowOf(req.game_id)].board[req.position] = "X"

\* C35: every committed board holds as many X as O or exactly one X more, never
\* more O than X, also after requests that ended by an oracle failure.
C35_MarkParity ==
    \A k \in 1..Len(db_games) :
        LET x == Marks(db_games[k].board, "X")
            o == Marks(db_games[k].board, "O")
        IN x = o \/ x = o + 1

\* a request ended by the oracle's failure on a game that already holds a pair
\* of marks
C35_Witness ==
    /\ pc = "done"
    /\ result.kind = "AIServiceException"
    /\ Marks(db_games[RowOf(req.game_id)].board, "X") = 1
    /\ Marks(db_games[RowOf(req.game_id)].board, "O") = 1

\* the committed Move rows of a game, in insertion order
MovesOf(game_id) == SelectSeq(db_moves, LAMBDA m : m.game_id = game_id)

\* C36: the committed board of every game is the replay of the game's Move rows
\* in insertion order on the empty board: there are as many rows as non-empty
\* cells, no position occurs twice, and the rows alternate X, O, X, ... from X.
C36_BoardIsReplay ==
    \A k \in 1..Len(db_games) :
        LET game == db_games[k]
            moves == MovesOf(game.id)
        IN /\ game.board = Replay(moves, EmptyBoard)
           /\ Len(moves) = Cardinality({c \in Cells : game.board[c] # " "})
           /\ \A i, j \in 1..Len(moves) :
                 moves[i].position = moves[j].position => i = j
           /\ \A i \in 1..Len(moves) :
                 moves[i].player = IF i % 2 = 1 THEN "X" ELSE "O"

\* a game with four committed rows whose board holds two marks of each player
C36_Witness ==
    /\ Len(db_games) = 1
    /\ Len(MovesOf(db_games[1].id)) = 4
    /\ Marks(db_games[1].board, "X") = 2
    /\ Marks(db_games[1].board, "O") = 2

\* C37: a draw is entered only by a human move: after a request in which the
\* oracle moved the committed board has an empty cell and the game is not a
\* draw, a step that makes a game a draw returns no oracle position, and no
\* committed board holds more than five X, a board with five X being of a game
\* that is over.
C37_DrawOnlyByHuman ==
    [][/\ OracleReplied =>
            /\ \E c \in Cells : After.board[c] = " "
            /\ After.status # "draw"
            /\ result'.body.status # "draw"
       /\ \A k \in 1..Len(db_games) :
            (db_games[k].status # "draw" /\ db_games'[k].status = "draw") =>
                /\ pc = "idle"
                /\ result'.kind = "MovePublic"
                /\ result'.body.ai_move = <<>>
       /\ \A k \in 1..Len(db_games') :
            /\ Marks(db_games'[k].board, "X") <= 5
            /\ Marks(db_games'[k].board, "X") = 5 =>
                  db_games'[k].status # "in_progress"]_vars

\* the oracle placed its fourth mark and one cell is left for the human
C37_Witness ==
    /\ pc = "done"
    /\ result.kind = "MovePublic"
    /\ result.body.ai_move # <<>>
    /\ result.body.status = "in_progress"
    /\ Cardinality({c \in Cells : db_games[RowOf(req.game_id)].board[c] = " "}) = 1

\* C38: every get_move invocation ends, given that each transport call comes
\* back: a transport call either ends the invocation or starts the next
\* iteration, whose number stays below max_retries, so at most max_retries calls
\* are issued and the invocation ends by a position or an AIServiceException;
\* with max_retries = 0 and no winning cell for the oracle it raises
\* AIServiceException without a transport call or a key advance.
C38_GetMoveTerminates ==
    /\ [][/\ Calls =>
                \/ pc' = "done" /\ result'.kind \in {"MovePublic", "AIServiceException"}
                \/ pc' = "call_api" /\ attempt' = attempt + 1 /\ attempt' < max_retries
          /\ pc' = "call_api" => attempt' < max_retries
          /\ api_calls' <= max_retries
          /\ (/\ MoveStarts
              /\ Legal
              /\ ~HasLine(Marked, "X")
              /\ \E c \in Cells : Marked[c] = " "
              /\ WinningCells(Marked, "O") = {}
              /\ max_retries = 0) =>
                /\ pc' = "done"
                /\ result'.kind = "AIServiceException"
                /\ get_move_calls' = 1
                /\ api_calls' = 0
                /\ current_key_index' = current_key_index]_vars
    /\ (pc = "call_api") ~> (pc = "done")

\* without attempts the invocation failed before any transport call
C38_Witness ==
    /\ max_retries = 0
    /\ pc = "done"
    /\ result.kind = "AIServiceException"
    /\ result.message = "Max retries exceeded"
    /\ get_move_calls = 1
    /\ api_calls = 0

\* C32 as stated: list_games returns the caller's games and no others, only
\* those of the requested status when one is given, the most recently updated
\* first (the model holds at most one game, whose order is its own).
C32_ListGames ==
    (pc = "done" /\ req.op = "list_games") =>
        /\ result.kind = "GamesPublic"
        /\ \A k \in 1..Len(db_games) :
              (/\ db_games[k].user_id = req.user_id
               /\ req.status \in {None, db_games[k].status}) <=>
                 (\E i \in 1..Len(result.body) : result.body[i].id = db_games[k].id)

\* the cells of each line of a list of lines
LineSets(list) == {{list[k][j] : j \in 1..3} : k \in 1..Len(list)}

\* C39: AIService._is_valid_move answers as GameEngine.is_valid_move on every
\* board and position, the lines _analyze_threats scans are the lines of
\* WIN_COMBINATIONS, and so the cell the fast path returns on a board without a
\* complete line (the boards make_move hands to get_move) makes check_winner
\* report the oracle's mark once the mark is placed there.
C39_OracleAgreesWithEngine ==
    /\ engine.op = "_is_valid_move" =>
          (engine.out <=> is_valid_move(engine.board, engine.position))
    /\ LineSets(lines) = LineSets(WIN_COMBINATIONS)
    /\ (/\ engine.op = "_analyze_threats"
        /\ engine.out.you_can_win
        /\ check_winner(engine.board) = None) =>
          /\ is_valid_move(engine.board, engine.out.your_win_pos)
          /\ check_winner(make_move(engine.board, engine.out.your_win_pos,
                                    engine.player)) = engine.player

\* the fast path found the oracle's winning cell on a board without a line
C39_Witness ==
    /\ engine.op = "_analyze_threats"
    /\ engine.player = "O"
    /\ engine.out.you_can_win
    /\ engine.out.your_win_pos = 8
    /\ check_winner(engine.board) = None
    /\ engine.board[0] = "X"

\* C34: the position parsed from the answer is the value of the first digit
\* character of the text, a number in 0..9 ("10" gives 1, "4,7" gives 4), and an
\* answer without a digit is a parse error; a parsed 9 is no parse error but a
\* position _is_valid_move rejects.
C34_FirstDigitParsed ==
    /\ engine.op = "_call_api" =>
          LET text   == engine.content
              digits == {i \in 1..Len(text) :
                            text[i] \in {DecimalDigits[k] : k \in 1..10}}
          IN /\ engine.out.raised <=> digits = {}
             /\ ~engine.out.raised =>
                   /\ engine.out.move \in 0..9
                   /\ \E i \in digits :
                         /\ \A j \in digits : i <= j
                         /\ text[i] = DecimalDigits[engine.out.move + 1]
             /\ text = <<"1", "0">> => engine.out.move = 1
             /\ text = <<"4", ",", "7">> => engine.out.move = 4
    /\ (engine.op = "_is_valid_move" /\ engine.move = 9) =>
          /\ ~ParsedMove(engine.content).raised
          /\ ~engine.out

\* the answer " 91" was parsed as 9 and rejected as a position
C34_Witness ==
    /\ engine.op = "_is_valid_move"
    /\ engine.content = <<" ", "9", "1">>
    /\ engine.move = 9
    /\ engine.out = FALSE

\* C31: with several get_move invocations of the one AIService instance in
\* flight, under every interleaving the key index and every key taken are in
\* 0..NumKeys-1, every position an invocation returned is a free cell of the
\* board it was called with, and every answer it refused is not: the
\* interleaving changes the keys the calls take, not the moves accepted.
C31_InterleavedOracleCalls ==
    /\ current_key_index \in 0..(NumKeys - 1)
    /\ \A t \in DOMAIN tasks :
          /\ \A k \in 1..Len(tasks[t].keys) : tasks[t].keys[k] \in 0..(NumKeys - 1)
          /\ tasks[t].ai_move # <<>> =>
                /\ tasks[t].ai_move[1] \in Cells
                /\ tasks[t].given[1][tasks[t].ai_move[1]] = " "
          /\ \A k \in 1..Len(tasks[t].invalid_moves) :
                LET digit == tasks[t].invalid_moves[k] IN
                    digit \notin Cells \/ tasks[t].given[1][digit] # " "

\* two invocations for different games both returned a position, and the calls
\* of the other one in between gave the first one the same key twice
C31_Witness ==
    /\ DOMAIN tasks = Tasks
    /\ tasks[1].game_id # tasks[2].game_id
    /\ tasks[1].ai_move # <<>>
    /\ tasks[2].ai_move # <<>>
    /\ tasks[1].keys = <<0, 0>>
    /\ tasks[2].keys # <<>>

\* C40 as stated: also when make_move calls on the same game interleave, every
\* committed board is the replay of the game's Move rows, no cell is written
\* twice, and the numbers of X and O differ by at most one.
C40_InterleavedMovesKeepInvariants ==
    \A k \in 1..Len(db_games) :
        LET game  == db_games[k]
            moves == SelectSeq(db_moves, LAMBDA m : m.game_id = game.id)
            x     == Cardinality({c \in Cells : game.board[c] = "X"})
            o     == Cardinality({c \in Cells : game.board[c] = "O"})
        IN /\ game.board = Replay(moves, EmptyBoard)
           /\ \A i, j \in 1..Len(moves) :
                 moves[i].position = moves[j].position => i = j
           /\ x - o \in {-1, 0, 1}

====
